---- MODULE Spec2Model ----
(***************************************************************************)
(* A model of the easy-vm stack machine (src/src/main.rs): the Program     *)
(* container, the VM state and the execute_one interpreter step.           *)
(***************************************************************************)
EXTENDS Integers, Sequences, FiniteSets, TLC

\* const STACK_SIZE: usize = 128;
STACK_SIZE == 128

\* The longest program built with Program::push from the whole instruction set.
MaxProgLen == 2

\* The longest program built from the stack and arithmetic instructions alone.
MaxStraightLen == 4

\* The longest string of the printing program, "Hello, World!\n" apart.
MaxPrintLen == 3

(***************************************************************************)
(* enum Instruction. A &'static str is a sequence of Unicode scalar values *)
(* (what str::chars() yields).                                             *)
(***************************************************************************)
Push(v)    == [op |-> "Push",     n |-> v, s |-> <<>>]
PushStr(t) == [op |-> "PushStr",  n |-> 0, s |-> t]
Pop        == [op |-> "Pop",      n |-> 0, s |-> <<>>]
Add        == [op |-> "Add",      n |-> 0, s |-> <<>>]
Sub        == [op |-> "Sub",      n |-> 0, s |-> <<>>]
Mul        == [op |-> "Mul",      n |-> 0, s |-> <<>>]
Div        == [op |-> "Div",      n |-> 0, s |-> <<>>]
JmpEq(t)   == [op |-> "JmpEq",    n |-> t, s |-> <<>>]
JmpNeq(t)  == [op |-> "JmpNeq",   n |-> t, s |-> <<>>]
Jmp(t)     == [op |-> "Jmp",      n |-> t, s |-> <<>>]
StdCall(i) == [op |-> "StdCall",  n |-> i, s |-> <<>>]
Interupt   == [op |-> "Interupt", n |-> 0, s |-> <<>>]

\* The inputs the model draws instructions from.
PushVals    == {0, 1, 200}
FillStr     == [i \in 1..(STACK_SIZE - 1) |-> 65]
Strs        == {<<97, 98>>, <<3, 2>>, <<97, 8364>>, <<97, 0, 98>>, FillStr}
JumpTargets == {0, 9}
StdCallIds  == {0, 1, 2, 3, 4, 259}

Instruction ==
    {Push(v) : v \in PushVals} \cup {PushStr(t) : t \in Strs}
    \cup {Pop, Add, Sub, Mul, Div, Interupt}
    \cup {JmpEq(t) : t \in JumpTargets} \cup {JmpNeq(t) : t \in JumpTargets}
    \cup {Jmp(t) : t \in JumpTargets}
    \cup {StdCall(i) : i \in StdCallIds}

\* Push, Pop and the arithmetic instructions: code without jumps or calls.
StraightInstruction ==
    {Push(v) : v \in PushVals} \cup {Pop, Add, Sub, Mul, Div}

(***************************************************************************)
(* State: the Program, the VM's four fields, and what a caller observes of *)
(* a call of execute_one (its instruction, its result, the panic raised).  *)
(***************************************************************************)
VARIABLES
    instructions,     \* Program.instructions: Vec<Instruction>
    stack,            \* VM.stack: [u8; STACK_SIZE], indexed from 0
    stack_pointer,    \* VM.stack_pointer
    program_pointer,  \* VM.program_pointer
    overflow,         \* VM.overflow
    fault,            \* the panic that aborted the process, or "none"
    overflow_checks,  \* the build: arithmetic overflow checks "on" or "off"
    invalid_arm,      \* the build: what an invalid StdFunc value makes the match do
    last,             \* the last call of execute_one, as its caller saw it
    calls,            \* VM::execute: the calls of execute_one it has made
    rendered          \* the text the last `{}` of the VM wrote

vars == <<instructions, stack, stack_pointer, program_pointer, overflow, fault,
          overflow_checks, invalid_arm, last, calls, rendered>>

\* get with the bound off by one: the last instruction is out of range.
get_short(program, index) ==
    IF index + 1 < Len(program) THEN program[index + 1] ELSE Interupt

\* Program::get: the instruction at index (0-based), Interupt when out of range.
get(program, index) ==
    IF index < Len(program) THEN program[index + 1] ELSE Interupt

\* The VM as a value: its fields, the pending panic, and the observations of
\* the running instruction (bytes returned by stack_pop, characters printed).
VMState(st, sp, pp, ov) ==
    [stack |-> st, stack_pointer |-> sp, program_pointer |-> pp, overflow |-> ov,
     fault |-> "none", pops |-> <<>>, out |-> <<>>]

\* VM::new
new == VMState([i \in 0..(STACK_SIZE - 1) |-> 0], 0, 0, FALSE)

\* panic!: the first panic aborts the instruction; nothing after it runs.
panic(vm, what) == IF vm.fault = "none" THEN [vm EXCEPT !.fault = what] ELSE vm

\* stack_push with `>` for `>=` in its capacity check.
stack_push_late(vm, value) ==
    IF vm.fault # "none" THEN vm
    ELSE IF vm.stack_pointer > STACK_SIZE THEN panic(vm, "StackOverflow")
    ELSE [vm EXCEPT !.stack_pointer = vm.stack_pointer + 1,
                    !.stack = IF vm.stack_pointer \in DOMAIN vm.stack
                              THEN [vm.stack EXCEPT ![vm.stack_pointer] = value]
                              ELSE vm.stack]

\* VM::stack_push
stack_push(vm, value) ==
    IF vm.fault # "none" THEN vm
    ELSE IF vm.stack_pointer >= STACK_SIZE THEN panic(vm, "StackOverflow")
    ELSE [vm EXCEPT !.stack[vm.stack_pointer] = value,
                    !.stack_pointer = vm.stack_pointer + 1]

\* stack_pop that reads the byte before moving the stack pointer down.
stack_pop_stale(vm) ==
    IF vm.fault # "none" THEN vm
    ELSE IF vm.stack_pointer = 0 THEN panic(vm, "StackUnderflow")
    ELSE [vm EXCEPT !.stack_pointer = vm.stack_pointer - 1,
                    !.pops = Append(vm.pops,
                                    IF vm.stack_pointer \in DOMAIN vm.stack
                                    THEN vm.stack[vm.stack_pointer] ELSE 0)]

\* VM::stack_pop: the returned byte is appended to pops.
stack_pop(vm) ==
    IF vm.fault # "none" THEN vm
    ELSE IF vm.stack_pointer = 0 THEN panic(vm, "StackUnderflow")
    ELSE [vm EXCEPT !.stack_pointer = vm.stack_pointer - 1,
                    !.pops = Append(vm.pops, vm.stack[vm.stack_pointer - 1])]

\* The byte the latest stack_pop returned (0 when it panicked: never used then).
popped(vm) == IF vm.pops = <<>> THEN 0 ELSE vm.pops[Len(vm.pops)]

\* print!
print(vm, chars) ==
    IF vm.fault # "none" THEN vm ELSE [vm EXCEPT !.out = vm.out \o chars]

\* `chr as u8`: the cast keeps the low eight bits of the scalar value.
as_u8(chr) == chr % 256

\* for chr in value.chars().rev() { self.stack_push(chr as u8); }
\* restricted to the characters value[hi], value[hi-1], ..., value[lo], pushed
\* in that order (the range is halved to keep the evaluation shallow).
RECURSIVE push_chars(_, _, _, _)
push_chars(vm, value, hi, lo) ==
    IF hi < lo THEN vm
    ELSE IF hi = lo THEN stack_push(vm, as_u8(value[hi]))
    ELSE LET mid == (hi + lo) \div 2
             upper == push_chars(vm, value, hi, mid + 1)
         IN  IF upper.fault # "none" THEN upper
             ELSE push_chars(upper, value, mid, lo)

\* push_str without the .rev(): the characters pushed first to last.
push_str_forward(vm, value) ==
    push_chars(stack_push(vm, 0),
               [i \in 1..Len(value) |-> value[Len(value) + 1 - i]],
               Len(value), 1)

\* Instruction::PushStr arm
push_str(vm, value) == push_chars(stack_push(vm, 0), value, Len(value), 1)

\* let lhs = self.stack_pop(); let rhs = self.stack_pop();
operands(vm) ==
    LET first  == stack_pop(vm)
        second == stack_pop(first)
    IN  [vm |-> second, lhs |-> popped(first), rhs |-> popped(second)]

\* Instruction::Add arm: u8::overflowing_add, then the flag.
add(vm) ==
    LET o      == operands(vm)
        pushed == stack_push(o.vm, (o.lhs + o.rhs) % 256)
    IN  IF pushed.fault # "none" THEN pushed
        ELSE [pushed EXCEPT !.overflow = (o.lhs + o.rhs > 255)]

\* sub with the operands of its flag swapped.
sub_flag_swapped(vm) ==
    LET o      == operands(vm)
        pushed == stack_push(o.vm, (o.lhs - o.rhs) % 256)
    IN  IF pushed.fault # "none" THEN pushed
        ELSE [pushed EXCEPT !.overflow = (o.rhs < o.lhs)]

\* Instruction::Sub arm: u8::overflowing_sub, then the flag.
sub(vm) ==
    LET o      == operands(vm)
        pushed == stack_push(o.vm, (o.lhs - o.rhs) % 256)
    IN  IF pushed.fault # "none" THEN pushed
        ELSE [pushed EXCEPT !.overflow = (o.lhs < o.rhs)]

\* Instruction::Mul arm: `lhs * rhs` on u8 panics on overflow when the build
\* has overflow checks (oc), and wraps when it has not.
mul(vm, oc) ==
    LET o == operands(vm)
    IN  IF oc /\ o.lhs * o.rhs > 255 THEN panic(o.vm, "MulOverflow")
        ELSE stack_push(o.vm, (o.lhs * o.rhs) % 256)

\* div with the operands of the division swapped: the top byte as the divisor.
div_top_divisor(vm) ==
    LET o == operands(vm)
    IN  IF o.lhs = 0 THEN panic(o.vm, "DivisionByZero")
        ELSE stack_push(o.vm, o.rhs \div o.lhs)

\* div that puts its operands back before it panics.
div_restoring(vm) ==
    LET o == operands(vm)
    IN  IF o.rhs = 0 /\ o.vm.fault = "none"
        THEN panic(stack_push(stack_push(o.vm, o.rhs), o.lhs), "DivisionByZero")
        ELSE IF o.rhs = 0 THEN panic(o.vm, "DivisionByZero")
        ELSE stack_push(o.vm, o.lhs \div o.rhs)

\* Instruction::Div arm: `lhs / rhs` on u8 panics when rhs is 0.
div(vm) ==
    LET o == operands(vm)
    IN  IF o.rhs = 0 THEN panic(o.vm, "DivisionByZero")
        ELSE stack_push(o.vm, o.lhs \div o.rhs)

\* cond_jump that pushes the operands back in the order it popped them.
cond_jump_swapped(vm, location, wantEqual) ==
    LET o     == operands(vm)
        taken == IF wantEqual THEN o.lhs = o.rhs ELSE o.lhs # o.rhs
        moved == IF taken /\ o.vm.fault = "none"
                 THEN [o.vm EXCEPT !.program_pointer = location] ELSE o.vm
        back  == stack_push(stack_push(moved, o.lhs), o.rhs)
    IN  [vm |-> back, ret |-> IF taken THEN "true" ELSE "fall"]

\* cond_jump without the `return true` of the taken branch.
cond_jump_no_return(vm, location, wantEqual) ==
    LET o     == operands(vm)
        taken == IF wantEqual THEN o.lhs = o.rhs ELSE o.lhs # o.rhs
        moved == IF taken /\ o.vm.fault = "none"
                 THEN [o.vm EXCEPT !.program_pointer = location] ELSE o.vm
        back  == stack_push(stack_push(moved, o.rhs), o.lhs)
    IN  [vm |-> back, ret |-> "fall"]

\* Instruction::JmpEq / JmpNeq arms: taken says whether lhs and rhs branch.
\* The result carries how the arm leaves the match: "true" for `return true`,
\* "fall" for falling through to the increment.
cond_jump(vm, location, wantEqual) ==
    LET o     == operands(vm)
        taken == IF wantEqual THEN o.lhs = o.rhs ELSE o.lhs # o.rhs
        moved == IF taken /\ o.vm.fault = "none"
                 THEN [o.vm EXCEPT !.program_pointer = location] ELSE o.vm
        back  == stack_push(stack_push(moved, o.rhs), o.lhs)
    IN  [vm |-> back, ret |-> IF taken THEN "true" ELSE "fall"]

\* jump that falls through to the increment after setting the target.
jump_and_increment(vm, location) ==
    [vm |-> [vm EXCEPT !.program_pointer = location + 1], ret |-> "true"]

\* Instruction::Jmp arm
jump(vm, location) ==
    [vm |-> [vm EXCEPT !.program_pointer = location], ret |-> "true"]

\* print!("{}", value) for a u8: its decimal digits, as characters.
RECURSIVE decimal(_)
decimal(value) ==
    IF value < 10 THEN <<48 + value>>
    ELSE Append(decimal(value \div 10), 48 + (value % 10))

\* StdFunc::PrintU8 arm
print_u8(vm) == LET p == stack_pop(vm) IN print(p, decimal(popped(p)))

\* StdFunc::PrintChar arm: `as char` of a u8 is the scalar value of that number.
print_char(vm) == LET p == stack_pop(vm) IN print(p, <<popped(p)>>)

\* print_string_turn with the print before the test for '\0'.
print_string_turn_print_first(l) ==
    IF ~l.go \/ l.vm.fault # "none" \/ ~(l.vm.stack_pointer > 0)
    THEN [vm |-> l.vm, go |-> FALSE]
    ELSE LET p == stack_pop(l.vm)
         IN  [vm |-> print(p, <<popped(p)>>), go |-> popped(p) # 0]

\* One turn of PrintString's `while self.stack_pointer > 0 { ... }`; go is
\* FALSE once the loop has ended (condition false, `break`, or a panic).
print_string_turn(l) ==
    IF ~l.go \/ l.vm.fault # "none" \/ ~(l.vm.stack_pointer > 0)
    THEN [vm |-> l.vm, go |-> FALSE]
    ELSE LET p == stack_pop(l.vm)
         IN  IF popped(p) = 0 THEN [vm |-> p, go |-> FALSE]
             ELSE [vm |-> print(p, <<popped(p)>>), go |-> TRUE]

\* turns turns of the loop, one after the other.
RECURSIVE print_string_turns(_, _)
print_string_turns(l, turns) ==
    IF turns = 0 THEN l
    ELSE IF turns = 1 THEN print_string_turn(l)
    ELSE LET first == print_string_turns(l, turns \div 2)
         IN  IF ~first.go THEN first
             ELSE print_string_turns(first, turns - (turns \div 2))

\* StdFunc::PrintString arm: every turn pops one byte, so the loop ends within
\* stack_pointer + 1 turns.
print_string(vm) ==
    print_string_turns([vm |-> vm, go |-> TRUE], vm.stack_pointer + 1).vm

\* StdFunc::Clone arm: the argument self.stack[self.stack_pointer] is read
\* (with its bounds check) before stack_push is entered.
clone(vm) ==
    IF vm.stack_pointer >= STACK_SIZE THEN panic(vm, "IndexOutOfBounds")
    ELSE stack_push(vm, vm.stack[vm.stack_pointer])

\* enum StdFunc and its discriminants.
StdFunc == [PrintU8 |-> 0, PrintChar |-> 1, PrintString |-> 2, Clone |-> 3]
StdFuncOf(d) ==
    CASE d = 0 -> "PrintU8" [] d = 1 -> "PrintChar"
      [] d = 2 -> "PrintString" [] d = 3 -> "Clone"

\* transmute::<u8, StdFunc>(id as u8) of a value that is no discriminant is
\* undefined behaviour: the compiled match may run any arm, none, or trap.
\* Which one is a property of the compiled code, the same at every call.
UBOutcomes == {"PrintU8", "PrintChar", "PrintString", "Clone", "NoArm", "Trap"}
ValidStdCall(id) == as_u8(id) \in 0..3

\* Instruction::StdCall arm; ub is the outcome taken when the id is invalid.
std_call(vm, id, ub) ==
    LET func == IF ValidStdCall(id) THEN StdFuncOf(as_u8(id)) ELSE ub
    IN  CASE func = "PrintU8"     -> print_u8(vm)
          [] func = "PrintChar"   -> print_char(vm)
          [] func = "PrintString" -> print_string(vm)
          [] func = "Clone"       -> clone(vm)
          [] func = "NoArm"       -> vm
          [] func = "Trap"        -> panic(vm, "Trap")

\* The match of execute_one: the VM after the arm, and how the arm ends.
dispatch(vm, instruction, ub, oc) ==
    LET fall(v) == [vm |-> v, ret |-> "fall"]
        op      == instruction.op
    IN  CASE op = "Push"     -> fall(stack_push(vm, instruction.n))
          [] op = "PushStr"  -> fall(push_str(vm, instruction.s))
          [] op = "Pop"      -> fall(stack_pop(vm))
          [] op = "Add"      -> fall(add(vm))
          [] op = "Sub"      -> fall(sub(vm))
          [] op = "Mul"      -> fall(mul(vm, oc))
          [] op = "Div"      -> fall(div(vm))
          [] op = "JmpEq"    -> cond_jump(vm, instruction.n, TRUE)
          [] op = "JmpNeq"   -> cond_jump(vm, instruction.n, FALSE)
          [] op = "Jmp"      -> jump(vm, instruction.n)
          [] op = "StdCall"  -> fall(std_call(vm, instruction.n, ub))
          [] op = "Interupt" -> [vm |-> vm, ret |-> "false"]

\* execute_one whose Interupt arm falls through to the increment.
execute_one_no_halt(vm, program, ub, oc) ==
    LET r == dispatch(vm, get(program, vm.program_pointer), ub, oc)
    IN  IF r.vm.fault # "none" THEN [vm |-> r.vm, ret |-> "panic"]
        ELSE IF r.ret # "true"
        THEN [vm |-> [r.vm EXCEPT !.program_pointer = r.vm.program_pointer + 1],
              ret |-> "true"]
        ELSE r

\* execute_one with the increment made although the arm panicked.
execute_one_increment_always(vm, program, ub, oc) ==
    LET r      == dispatch(vm, get(program, vm.program_pointer), ub, oc)
        bumped == [r.vm EXCEPT !.program_pointer = r.vm.program_pointer + 1]
    IN  IF r.vm.fault # "none"
        THEN [vm |-> IF r.ret = "fall" THEN bumped ELSE r.vm, ret |-> "panic"]
        ELSE IF r.ret = "fall" THEN [vm |-> bumped, ret |-> "true"]
        ELSE r

\* execute_one without the increment after the match.
execute_one_no_increment(vm, program, ub, oc) ==
    LET r == dispatch(vm, get(program, vm.program_pointer), ub, oc)
    IN  IF r.vm.fault # "none" THEN [vm |-> r.vm, ret |-> "panic"]
        ELSE IF r.ret = "fall" THEN [vm |-> r.vm, ret |-> "true"]
        ELSE r

\* VM::execute_one: fetch, match, and the increment after the match. ret is
\* the bool returned, or "panic" when the call never returns.
execute_one(vm, program, ub, oc) ==
    LET r == dispatch(vm, get(program, vm.program_pointer), ub, oc)
    IN  IF r.vm.fault # "none" THEN [vm |-> r.vm, ret |-> "panic"]
        ELSE IF r.ret = "fall"
        THEN [vm |-> [r.vm EXCEPT !.program_pointer = r.vm.program_pointer + 1],
              ret |-> "true"]
        ELSE r

(***************************************************************************)
(* impl Display for VM: the two header lines, then the stack bytes as      *)
(* two-digit hexadecimal cells in rows. Each cell carries the stack index  *)
(* it was read from, next to the characters written.                       *)
(***************************************************************************)
\* One digit of {:02x}
hex_digit(d) == IF d < 10 THEN 48 + d ELSE 87 + d

\* write!(f, "{:02x} ", self.stack[index])
cell(vm, index) ==
    [index |-> index,
     text  |-> <<hex_digit(vm.stack[index] \div 16),
                 hex_digit(vm.stack[index] % 16), 32>>]

\* write!(f, "\n") at the end of a row
newline == [index |-> -1, text |-> <<10>>]

\* The rows from row i on: `index = i * 8 + j` for j in 0..32, and the
\* `break 'A` at the first index that is not below stack_pointer.
RECURSIVE fmt_rows(_, _)
fmt_rows(vm, i) ==
    IF i >= STACK_SIZE \div 32 THEN <<>>
    ELSE LET inrow == {j \in 0..31 : i * 8 + j < vm.stack_pointer}
             cells == [k \in 1..Cardinality(inrow) |-> cell(vm, i * 8 + k - 1)]
         IN  IF Cardinality(inrow) < 32 THEN cells
             ELSE cells \o <<newline>> \o fmt_rows(vm, i + 1)

\* Display::fmt
fmt(vm) ==
    [shown |-> TRUE,
     program_pointer |-> decimal(vm.program_pointer),
     stack_pointer |-> decimal(vm.stack_pointer),
     cells |-> fmt_rows(vm, 0)]

\* Nothing written yet.
NoText ==
    [shown |-> FALSE, program_pointer |-> <<>>, stack_pointer |-> <<>>,
     cells |-> <<>>]

(***************************************************************************)
(* The state machine. The two properties of the build that the source      *)
(* leaves open (overflow checks, the code the match compiles to) are fixed *)
(* for a whole run; each is "unknown" until the run first depends on it.   *)
(***************************************************************************)
NoCall ==
    [called |-> FALSE, instruction |-> Interupt, len |-> 0, stack |-> new.stack,
     stack_pointer |-> 0, program_pointer |-> 0, overflow |-> FALSE,
     ret |-> "none", pops |-> <<>>, out |-> <<>>]

\* Program::new() and VM::new().
Init ==
    /\ instructions = <<>>
    /\ stack = new.stack
    /\ stack_pointer = new.stack_pointer
    /\ program_pointer = new.program_pointer
    /\ overflow = new.overflow
    /\ fault = "none"
    /\ overflow_checks = "unknown"
    /\ invalid_arm = "unknown"
    /\ last = NoCall
    /\ calls = 0
    /\ rendered = NoText

\* Program::push
push(program, instruction) == Append(program, instruction)

\* A call of Program::push with any instruction.
ProgramPush ==
    /\ fault = "none"
    /\ Len(instructions) < MaxProgLen
    /\ \E instruction \in Instruction :
         instructions' = push(instructions, instruction)
    /\ UNCHANGED <<stack, stack_pointer, program_pointer, overflow, fault,
                   overflow_checks, invalid_arm, last, calls, rendered>>

\* A call of Program::push with a stack or arithmetic instruction.
StraightPush ==
    /\ fault = "none"
    /\ Len(instructions) < MaxStraightLen
    /\ \E instruction \in StraightInstruction :
         instructions' = push(instructions, instruction)
    /\ UNCHANGED <<stack, stack_pointer, program_pointer, overflow, fault,
                   overflow_checks, invalid_arm, last, calls, rendered>>

\* Does the instruction about to run multiply two bytes whose product
\* does not fit a u8?
MulOverflows ==
    /\ get(instructions, program_pointer).op = "Mul"
    /\ stack_pointer >= 2
    /\ stack[stack_pointer - 1] * stack[stack_pointer - 2] > 255

\* Does the instruction about to run transmute an invalid StdFunc value?
InvalidStdCall ==
    /\ get(instructions, program_pointer).op = "StdCall"
    /\ ~ValidStdCall(get(instructions, program_pointer).n)

\* VM::execute_one(&program) on the VM and the Program of the state.
Step ==
    /\ fault = "none"
    /\ \E oc \in IF MulOverflows /\ overflow_checks = "unknown"
                 THEN {"on", "off"} ELSE {overflow_checks},
          ub \in IF InvalidStdCall /\ invalid_arm = "unknown"
                 THEN UBOutcomes ELSE {invalid_arm} :
         LET r == execute_one(
                      VMState(stack, stack_pointer, program_pointer, overflow),
                      instructions, ub, oc = "on")
         IN  /\ stack' = r.vm.stack
             /\ stack_pointer' = r.vm.stack_pointer
             /\ program_pointer' = r.vm.program_pointer
             /\ overflow' = r.vm.overflow
             /\ fault' = r.vm.fault
             /\ overflow_checks' = oc
             /\ invalid_arm' = ub
             /\ last' = [called |-> TRUE,
                         instruction |-> get(instructions, program_pointer),
                         len |-> Len(instructions),
                         stack |-> stack,
                         stack_pointer |-> stack_pointer,
                         program_pointer |-> program_pointer,
                         overflow |-> overflow,
                         ret |-> r.ret, pops |-> r.vm.pops, out |-> r.vm.out]
    /\ UNCHANGED instructions

\* One call of VM::execute_one(&program) by any caller.
ExecuteOne == Step /\ UNCHANGED <<calls, rendered>>

\* One turn of the loop of VM::execute(&program, false): the loop ends when
\* execute_one returns false.
Execute ==
    /\ last.ret # "false"
    /\ Step
    /\ calls' = calls + 1
    /\ UNCHANGED rendered

\* One turn of the loop of VM::execute(&program, true): after a call that
\* returns true the VM is written with `{}`. (The `{:?}` of the instruction
\* that the turn writes first reads the Program only and is left out.)
ExecuteDebug ==
    /\ last.ret # "false"
    /\ Step
    /\ rendered' = IF last'.ret = "true"
                   THEN fmt(VMState(stack', stack_pointer', program_pointer',
                                    overflow'))
                   ELSE rendered
    /\ UNCHANGED calls

Next == ProgramPush \/ ExecuteOne

Spec == Init /\ [][Next]_vars

\* The same machine driven by jump-free stack and arithmetic code.
NextStraight == StraightPush \/ ExecuteOne

SpecStraight == Init /\ [][NextStraight]_vars

\* A whole program handed to VM::execute: every Program::push precedes the
\* run, and the run is followed for at most MaxCalls calls of execute_one.
MaxCalls == MaxProgLen + 3

RunPush == calls = 0 /\ ProgramPush

RunStep == calls < MaxCalls /\ Execute

NextRun == RunPush \/ RunStep

SpecRun == Init /\ [][NextRun]_vars

\* The machine run in debug mode.
NextDebug == ProgramPush \/ ExecuteDebug

SpecDebug == Init /\ [][NextDebug]_vars

(***************************************************************************)
(* The counting loop: the program main() carries in a comment, and the     *)
(* same program with the jump targets 5 and 1 in place of 6 and 2. The     *)
(* program is built whole, then run by VM::execute until execute_one       *)
(* returns false.                                                          *)
(***************************************************************************)
MainLoop    == <<Push(10), Push(0), JmpEq(6), Push(1), Add, Jmp(2)>>
ShiftedLoop == <<Push(10), Push(0), JmpEq(5), Push(1), Add, Jmp(1)>>

\* program.push(...) of the next instruction of one of the two loops.
LoopPush ==
    /\ ~last.called
    /\ \E program \in {MainLoop, ShiftedLoop} :
         /\ Len(instructions) < Len(program)
         /\ instructions = SubSeq(program, 1, Len(instructions))
         /\ instructions' = push(instructions, program[Len(instructions) + 1])
    /\ UNCHANGED <<stack, stack_pointer, program_pointer, overflow, fault,
                   overflow_checks, invalid_arm, last, calls, rendered>>

\* vm.execute(&program, false) on the finished program, turn by turn.
LoopRun ==
    /\ instructions \in {MainLoop, ShiftedLoop}
    /\ Execute

NextLoop == LoopPush \/ LoopRun

SpecLoop == Init /\ [][NextLoop]_vars

(***************************************************************************)
(* The program of main(): a PushStr and a StdCall(PrintString), built      *)
(* whole and then run by VM::execute. The string is "Hello, World!\n" or   *)
(* any string of at most MaxPrintLen of the characters 'H', 'i' and '\n'.  *)
(***************************************************************************)
HelloWorld == <<72, 101, 108, 108, 111, 44, 32, 87, 111, 114, 108, 100, 33, 10>>

PrintChars == {72, 105, 10}

PrintStrs ==
    {HelloWorld} \cup UNION {[1..n -> PrintChars] : n \in 0..MaxPrintLen}

\* The two program.push(...) of main().
PrintPush ==
    /\ ~last.called
    /\ \/ /\ Len(instructions) = 0
          /\ \E value \in PrintStrs :
               instructions' = push(instructions, PushStr(value))
       \/ /\ Len(instructions) = 1
          /\ instructions' = push(instructions, StdCall(StdFunc.PrintString))
    /\ UNCHANGED <<stack, stack_pointer, program_pointer, overflow, fault,
                   overflow_checks, invalid_arm, last, calls, rendered>>

\* vm.execute(&program, false) on the finished program, turn by turn.
PrintRun ==
    /\ Len(instructions) = 2
    /\ Execute

NextPrint == PrintPush \/ PrintRun

SpecPrint == Init /\ [][NextPrint]_vars

(***************************************************************************)
(* Vocabulary of the properties: the last call of execute_one, before and  *)
(* after.                                                                  *)
(***************************************************************************)
LastOp == last.instruction.op

\* The byte on top of the stack before the call, and the byte under it.
TopBefore    == last.stack[last.stack_pointer - 1]
SecondBefore == last.stack[last.stack_pointer - 2]

\* Bytes 0..n-1 of the stack are what they were before the call.
SameBelow(n) == \A i \in 0..(n - 1) : stack[i] = last.stack[i]

\* The call returned (it did not panic).
Returned == last.called /\ fault = "none"

\* The last call was a jump that branched.
BranchTaken ==
    \/ LastOp = "Jmp"
    \/ LastOp = "JmpEq" /\ last.stack_pointer >= 2 /\ TopBefore = SecondBefore
    \/ LastOp = "JmpNeq" /\ last.stack_pointer >= 2 /\ TopBefore # SecondBefore

(***************************************************************************)
(* C1. The stack pointer stays within 0..STACK_SIZE in every reachable     *)
(* state, the state in which a panic is raised included.                   *)
(***************************************************************************)
StackPointerInRange == stack_pointer \in 0..STACK_SIZE

\* A push was refused on a full stack: the panic state, stack pointer at 128.
StackPointerInRange_witness ==
    /\ last.called
    /\ fault = "StackOverflow"
    /\ stack_pointer = STACK_SIZE

(***************************************************************************)
(* C2. Control flow: after a call that returns, a taken jump (Jmp, JmpEq   *)
(* on equal operands, JmpNeq on unequal operands) leaves program_pointer   *)
(* at its target, and every other instruction but Interupt leaves it one   *)
(* past where it was.                                                      *)
(***************************************************************************)
ControlFlowRule ==
    Returned =>
        IF BranchTaken THEN program_pointer = last.instruction.n
        ELSE LastOp # "Interupt" => program_pointer = last.program_pointer + 1

\* A JmpEq on equal operands went to a target that is not the next index.
ControlFlowRule_witness ==
    /\ Returned
    /\ LastOp = "JmpEq"
    /\ BranchTaken
    /\ program_pointer = last.instruction.n
    /\ program_pointer # last.program_pointer + 1

(***************************************************************************)
(* C3. execute_one returns false exactly when the instruction fetched is   *)
(* Interupt, which is what every index at or past the program's end        *)
(* fetches; that call changes none of stack, stack_pointer,                *)
(* program_pointer and overflow. Every other call that returns, returns    *)
(* true.                                                                   *)
(***************************************************************************)
ReturnsFalseIffInterupt ==
    last.called =>
        /\ (last.ret = "false") <=> (LastOp = "Interupt")
        /\ last.program_pointer >= last.len => last.ret = "false"
        /\ last.ret = "false" =>
               /\ fault = "none"
               /\ stack = last.stack
               /\ stack_pointer = last.stack_pointer
               /\ program_pointer = last.program_pointer
               /\ overflow = last.overflow
        /\ (fault = "none" /\ LastOp # "Interupt") => last.ret = "true"

\* A run fell off the end of a program that left bytes on the stack.
ReturnsFalseIffInterupt_witness ==
    /\ last.called
    /\ last.ret = "false"
    /\ last.len > 0
    /\ last.program_pointer = last.len
    /\ stack_pointer > 0

(***************************************************************************)
(* C4. Program::get is total: it returns the instruction pushed i-th for   *)
(* an index i below the number of instructions pushed and Interupt for     *)
(* every other index, so that the step after a jump to or past the end of  *)
(* the program halts without a panic.                                      *)
(***************************************************************************)
GetIsTotal ==
    last.called =>
        /\ last.program_pointer < last.len =>
               last.instruction = instructions[last.program_pointer + 1]
        /\ last.program_pointer >= last.len =>
               /\ last.instruction = Interupt
               /\ last.ret = "false"
               /\ fault = "none"

\* The step after a jump past the end of the program halted.
GetIsTotal_witness ==
    /\ last.called
    /\ last.program_pointer > last.len
    /\ last.program_pointer \in JumpTargets
    /\ last.ret = "false"
    /\ fault = "none"

(***************************************************************************)
(* C5. Stack faults: Push, PushStr and StdCall(3) called with the stack    *)
(* pointer at 128 panic with the stack overflow; Pop, Add, Sub, Mul, Div,  *)
(* JmpEq, JmpNeq, StdCall(0) and StdCall(1) called with it at 0 panic with *)
(* the stack underflow; and a push or pop panics only at those two stack   *)
(* pointers (a panic leaves the stack pointer where the refused push or    *)
(* pop found it).                                                          *)
(***************************************************************************)
PushesFirst ==
    \/ LastOp \in {"Push", "PushStr"}
    \/ LastOp = "StdCall" /\ last.instruction.n = StdFunc.Clone

PopsFirst ==
    \/ LastOp \in {"Pop", "Add", "Sub", "Mul", "Div", "JmpEq", "JmpNeq"}
    \/ LastOp = "StdCall"
         /\ last.instruction.n \in {StdFunc.PrintU8, StdFunc.PrintChar}

\* C5: overflow panics exactly at 128, underflow panics exactly at 0.
StackFaults ==
    last.called =>
        /\ (PushesFirst /\ last.stack_pointer = STACK_SIZE) =>
               fault = "StackOverflow"
        /\ (PopsFirst /\ last.stack_pointer = 0) => fault = "StackUnderflow"
        /\ fault = "StackOverflow" => stack_pointer = STACK_SIZE
        /\ fault = "StackUnderflow" => stack_pointer = 0

(***************************************************************************)
(* C6. LIFO law: while a run has executed only Push and Pop, without a     *)
(* panic, the logical stack is the sequence of pushed bytes not yet        *)
(* popped, oldest first; so each Pop returns the byte of the latest Push   *)
(* not yet popped and leaves the bytes under it as they were.              *)
(***************************************************************************)
\* The bytes pushed and not yet popped after the first k instructions of a
\* Push/Pop program, oldest first.
RECURSIVE Unpopped(_)
Unpopped(k) ==
    IF k = 0 THEN <<>>
    ELSE LET before == Unpopped(k - 1)
         IN  IF instructions[k].op = "Push"
             THEN Append(before, instructions[k].n)
             ELSE SubSeq(before, 1, Len(before) - 1)

PushPopOnly(k) ==
    /\ k <= Len(instructions)
    /\ \A i \in 1..k : instructions[i].op \in {"Push", "Pop"}

LogicalStack == [i \in 1..stack_pointer |-> stack[i - 1]]

\* C6: the logical stack is the unpopped pushes; a Pop returns the latest.
LifoLaw ==
    (fault = "none" /\ PushPopOnly(program_pointer)) =>
        /\ LogicalStack = Unpopped(program_pointer)
        /\ (last.called /\ LastOp = "Pop") =>
               LET before == Unpopped(program_pointer - 1)
               IN  /\ Len(before) > 0
                   /\ last.pops = <<before[Len(before)]>>
                   /\ SameBelow(stack_pointer)

\* A Pop took the later of two different pushed bytes and left the earlier.
LifoLaw_witness ==
    /\ fault = "none"
    /\ PushPopOnly(program_pointer)
    /\ last.called
    /\ LastOp = "Pop"
    /\ stack_pointer >= 1
    /\ last.pops # <<stack[stack_pointer - 1]>>

ArithmeticResult ==
    (/\ last.called
     /\ LastOp \in {"Add", "Sub", "Mul", "Div"}
     /\ last.stack_pointer >= 2
     /\ LastOp = "Div" => SecondBefore # 0) =>
        /\ fault = "none"
        /\ stack_pointer = last.stack_pointer - 1
        /\ stack[stack_pointer - 1] =
               CASE LastOp = "Add" -> (TopBefore + SecondBefore) % 256
                 [] LastOp = "Sub" -> (TopBefore - SecondBefore) % 256
                 [] LastOp = "Mul" -> (TopBefore * SecondBefore) % 256
                 [] LastOp = "Div" -> TopBefore \div SecondBefore
        /\ SameBelow(stack_pointer - 1)

(***************************************************************************)
(* C9. JmpEq and JmpNeq called with at least two bytes on the stack return *)
(* with the stack as it was: the same stack pointer and the same bytes,    *)
(* whether or not they branch.                                             *)
(***************************************************************************)
CompareRestoresStack ==
    (last.called /\ LastOp \in {"JmpEq", "JmpNeq"} /\ last.stack_pointer >= 2) =>
        /\ fault = "none"
        /\ stack_pointer = last.stack_pointer
        /\ SameBelow(stack_pointer)

\* A JmpNeq branched on two different bytes that lie on top of a third.
CompareRestoresStack_witness ==
    /\ Returned
    /\ LastOp = "JmpNeq"
    /\ last.stack_pointer >= 3
    /\ TopBefore # SecondBefore
    /\ BranchTaken
    /\ stack_pointer = last.stack_pointer

(***************************************************************************)
(* C10. PushStr(s) called with at least Len(s)+1 free slots raises the     *)
(* stack pointer by Len(s)+1 and lays out a 0 byte and, above it, the      *)
(* characters of s in reverse (the first character on top), the bytes      *)
(* below unchanged: Len(s) pops yield the characters of s, then 0.         *)
(***************************************************************************)
PushStrLayout ==
    (/\ last.called
     /\ LastOp = "PushStr"
     /\ last.stack_pointer + Len(last.instruction.s) + 1 <= STACK_SIZE) =>
        /\ fault = "none"
        /\ stack_pointer = last.stack_pointer + Len(last.instruction.s) + 1
        /\ stack[last.stack_pointer] = 0
        /\ \A k \in 1..Len(last.instruction.s) :
               stack[stack_pointer - k] = last.instruction.s[k]
        /\ SameBelow(last.stack_pointer)

(***************************************************************************)
(* C11. A StdCall whose id is outside 0..3 is rejected: the call raises    *)
(* the invalid-standard-call-id fault and runs none of the four built-ins. *)
(***************************************************************************)
InvalidStdCallRejected ==
    (last.called /\ LastOp = "StdCall" /\ last.instruction.n \notin 0..3)
        => /\ fault = "InvalidStandardCallId"
           /\ last.pops = <<>>
           /\ last.out = <<>>
           /\ stack_pointer = last.stack_pointer

(***************************************************************************)
(* C12. Div on two operands raises the division-by-zero panic exactly when *)
(* the byte under the top (the second operand popped) is 0. With 0 on top  *)
(* of a non-zero byte it does not panic: it replaces the two by 0.         *)
(***************************************************************************)
DivFaultsOnZeroSecond ==
    (last.called /\ LastOp = "Div" /\ last.stack_pointer >= 2) =>
        /\ fault = "DivisionByZero" <=> SecondBefore = 0
        /\ fault \in {"none", "DivisionByZero"}
        /\ (TopBefore = 0 /\ SecondBefore # 0) =>
               /\ fault = "none"
               /\ stack_pointer = last.stack_pointer - 1
               /\ stack[stack_pointer - 1] = 0

\* Div ran with 0 on top of 200 and pushed 0 without a panic.
DivFaultsOnZeroSecond_witness ==
    /\ last.called
    /\ LastOp = "Div"
    /\ last.stack_pointer >= 2
    /\ TopBefore = 0
    /\ SecondBefore = 200
    /\ fault = "none"
    /\ stack[stack_pointer - 1] = 0

PrintRunOutput ==
    last.called =>
        /\ fault = "none"
        /\ calls \in 1..3
        /\ calls = 1 =>
               /\ last.instruction = instructions[1]
               /\ last.out = <<>>
        /\ calls = 2 =>
               /\ last.instruction = StdCall(2)
               /\ last.out = instructions[1].s
               /\ stack_pointer = 0
               /\ program_pointer = 2
        /\ calls = 3 =>
               /\ last.instruction = Interupt
               /\ last.ret = "false"
               /\ last.out = <<>>
               /\ stack_pointer = 0
               /\ program_pointer = 2
        /\ last.ret = "false" => calls = 3

\* "Hi\n" has been printed and the run has ended at index 2 on an empty stack.
PrintRunOutput_witness ==
    /\ instructions = <<PushStr(<<72, 105, 10>>), StdCall(2)>>
    /\ calls = 3
    /\ last.ret = "false"
    /\ program_pointer = 2
    /\ stack_pointer = 0

(***************************************************************************)
(* C15. StdCall(3) (Clone) on a stack that is neither empty nor full       *)
(* duplicates the top: the stack pointer grows by one and the new top byte *)
(* is the byte that was on top before the call.                            *)
(***************************************************************************)
CloneDuplicatesTop ==
    (/\ last.called
     /\ last.instruction = StdCall(StdFunc.Clone)
     /\ 0 < last.stack_pointer
     /\ last.stack_pointer < STACK_SIZE) =>
        /\ fault = "none"
        /\ stack_pointer = last.stack_pointer + 1
        /\ stack[stack_pointer - 1] = TopBefore

(***************************************************************************)
(* C16. StdCall(2) (PrintString) pops from the top down to the topmost 0   *)
(* of the logical stack, that 0 included, or to the bottom when there is   *)
(* no 0; it prints the bytes popped other than the 0, in the order popped. *)
(* Afterwards the stack pointer is the index of that 0, or 0. It raises no *)
(* panic, on an empty stack neither.                                       *)
(***************************************************************************)
ZerosBefore == {j \in 0..(last.stack_pointer - 1) : last.stack[j] = 0}

TopmostZero == CHOOSE j \in ZerosBefore : \A k \in ZerosBefore : k <= j

PrintStringStops ==
    (last.called /\ last.instruction = StdCall(StdFunc.PrintString)) =>
        LET floor   == IF ZerosBefore = {} THEN 0 ELSE TopmostZero
            printed == IF ZerosBefore = {} THEN last.stack_pointer
                       ELSE last.stack_pointer - floor - 1
        IN  /\ fault = "none"
            /\ stack_pointer = floor
            /\ last.pops = [k \in 1..(last.stack_pointer - floor) |->
                               last.stack[last.stack_pointer - k]]
            /\ last.out = [k \in 1..printed |->
                              last.stack[last.stack_pointer - k]]
            /\ stack = last.stack
            /\ program_pointer = last.program_pointer + 1

\* On the stack [0, 98, 0, 97] PrintString printed 'a', consumed the 0 at
\* index 2 and stopped there.
PrintStringStops_witness ==
    /\ last.called
    /\ last.instruction = StdCall(StdFunc.PrintString)
    /\ last.stack_pointer = 4
    /\ ZerosBefore = {0, 2}
    /\ last.out = <<97>>
    /\ last.pops = <<97, 0>>
    /\ stack_pointer = 2
    /\ fault = "none"

(***************************************************************************)
(* C17. A panic ends the run where it is raised: the call that raised it   *)
(* has printed nothing and has left program_pointer at the index of its    *)
(* instruction, and no call of execute_one can follow it.                  *)
(***************************************************************************)
FaultEndsRun ==
    fault # "none" =>
        /\ last.called
        /\ last.ret = "panic"
        /\ last.instruction = get(instructions, program_pointer)
        /\ program_pointer = last.program_pointer
        /\ last.out = <<>>
        /\ ~ENABLED ExecuteOne

\* A Div with one byte on the stack panicked at index 1, after a Push at 0.
FaultEndsRun_witness ==
    /\ fault = "StackUnderflow"
    /\ last.instruction = Div
    /\ last.program_pointer = 1
    /\ program_pointer = 1

(***************************************************************************)
(* C18. No rollback. A two-operand instruction (Add, Sub, Mul, Div, JmpEq, *)
(* JmpNeq) run on a single byte panics with that byte popped: the stack    *)
(* pointer is 0. Div by zero panics with both operands popped. A PushStr   *)
(* that does not fit panics at stack pointer 128 with the 0 and the        *)
(* characters it had room for in place, last character lowest.             *)
(***************************************************************************)
TwoOperandOps == {"Add", "Sub", "Mul", "Div", "JmpEq", "JmpNeq"}

NoRollback ==
    last.called =>
        /\ (LastOp \in TwoOperandOps /\ last.stack_pointer = 1) =>
               /\ fault = "StackUnderflow"
               /\ stack_pointer = 0
        /\ (LastOp = "Div" /\ last.stack_pointer >= 2 /\ SecondBefore = 0) =>
               /\ fault = "DivisionByZero"
               /\ stack_pointer = last.stack_pointer - 2
        /\ (/\ LastOp = "PushStr"
            /\ last.stack_pointer + Len(last.instruction.s) + 1 > STACK_SIZE) =>
               LET s == last.instruction.s
               IN  /\ fault = "StackOverflow"
                   /\ stack_pointer = STACK_SIZE
                   /\ SameBelow(last.stack_pointer)
                   /\ last.stack_pointer < STACK_SIZE =>
                          stack[last.stack_pointer] = 0
                   /\ \A k \in 1..(STACK_SIZE - 1 - last.stack_pointer) :
                          stack[last.stack_pointer + k] =
                              as_u8(s[Len(s) + 1 - k])

\* A PushStr("ab") at stack pointer 126 pushed its 0 and its 'b', and
\* panicked on the 'a'.
NoRollback_witness ==
    /\ last.called
    /\ last.instruction = PushStr(<<97, 98>>)
    /\ last.stack_pointer = STACK_SIZE - 2
    /\ fault = "StackOverflow"
    /\ stack_pointer = STACK_SIZE
    /\ stack[STACK_SIZE - 2] = 0
    /\ stack[STACK_SIZE - 1] = 98

(***************************************************************************)
(* C19. What `{}` writes of the stack: for the stack pointer n it prints   *)
(* in the header, the bytes at the indices 0, 1, ..., n-1, each once, in   *)
(* that order.                                                             *)
(***************************************************************************)
RenderedIndices ==
    LET cells == SelectSeq(rendered.cells, LAMBDA c : c.index >= 0)
    IN  [k \in 1..Len(cells) |-> cells[k].index]

DisplayShowsLogicalStack ==
    rendered.shown =>
        \E n \in 0..STACK_SIZE :
            /\ rendered.stack_pointer = decimal(n)
            /\ RenderedIndices = [k \in 1..n |-> k - 1]

(***************************************************************************)
(* C20. A run of VM::execute on a program of length n without Jmp, JmpEq   *)
(* and JmpNeq: as long as it has neither panicked nor had execute_one      *)
(* return false, program_pointer is the number of calls made, so the run   *)
(* has ended by call n+1 at the latest and makes no call after it. With    *)
(* jumps there is no such bound: the run of [Jmp(0)] never ends, its       *)
(* program_pointer stays 0.                                                *)
(***************************************************************************)
JumpFree ==
    \A i \in 1..Len(instructions) :
        instructions[i].op \notin {"Jmp", "JmpEq", "JmpNeq"}

Ended == fault # "none" \/ last.ret = "false"

JumpFreeRunEnds ==
    /\ JumpFree =>
           /\ calls <= Len(instructions) + 1
           /\ calls = Len(instructions) + 1 => Ended
           /\ ~Ended => program_pointer = calls
    /\ instructions = <<Jmp(0)>> =>
           /\ ~Ended
           /\ program_pointer = 0

\* Two pushes, then the Interupt fetched past the end: the run ended at call 3.
JumpFreeRunEnds_witness ==
    /\ instructions = <<Push(1), Push(200)>>
    /\ calls = 3
    /\ last.ret = "false"
    /\ program_pointer = 2

====
